---- MODULE Spec2Model ----
(***************************************************************************)
(* Model of src/src/context/ChatContext.tsx: the process-wide `rooms` map  *)
(* and the ChatProvider sessions that pair through it.                     *)
(*                                                                         *)
(* Room objects live in a heap (`heap`), because joinChat keeps a          *)
(* reference to the Room object it looked up across its await, while the   *)
(* registry entry for the code may be deleted in the meantime.             *)
(*                                                                         *)
(* React semantics that the code relies on, modelled as they are:          *)
(*  - a useState setter that is handed a function treats it as an updater: *)
(*    it calls it with the previous state and stores what it returns       *)
(*    (basicStateReducer);                                                 *)
(*  - state updates made in one synchronous stretch are committed          *)
(*    together, and the useEffect cleanup of the previous render then runs *)
(*    with the previous render's pairingCode and messageCallback;          *)
(*  - a setter called on an unmounted component does nothing.              *)
(* A session makes one call at a time: while its joinChat is suspended it  *)
(* makes no other call and is not unmounted. Other sessions run meanwhile. *)
(* Timestamps (Date.now()) are not modelled.                               *)
(***************************************************************************)
EXTENDS Integers, Sequences, FiniteSets, TLC

\* ---------------------------------------------------------------- bounds
MaxRooms == 2      \* Room objects ever created (rooms.set calls)
MaxFns == 2        \* delivery callbacks ever created (successful joins)
MaxMessages == 3   \* Messages held in all logs together
MaxPending == 1    \* joinChat calls suspended in their await at one time

\* ---------------------------------------------------------------- values
Sessions == {"A", "B", "T"}
Codes == {"c1", "c2"}
\* the (content, type) pairs sendMessage is called with
Inputs == {<<"hi", "text">>}

NullCode == "null"
Undefined == "undefined"
NoRoom == 0
NullCb == [kind |-> "null", owner |-> "none", n |-> 0]
NoJoin == [code |-> NullCode, room |-> NoRoom]

VARIABLES
    rooms,            \* the registry: code -> Room object (index in heap) or NoRoom
    heap,             \* Room objects: <<[creator, listeners]>>
    messages,         \* per session: the message log
    isPaired,         \* per session
    pairingCode,      \* per session: a code or NullCode
    messageCallback,  \* per session: the value held by the messageCallback state
    mounted,          \* per session: the provider is mounted
    joinPending,      \* per session: the (code, room) a joinChat holds across its await
    nextFn,           \* callbacks created so far
    last              \* history: what the last call returned or threw, and what it logged

vars == <<rooms, heap, messages, isPaired, pairingCode, messageCallback, mounted,
          joinPending, nextFn, last>>

NoCall == [op |-> "none", result |-> "none", log |-> "none"]

\* The outcome of a call: its result (a returned value or the error thrown) and the
\* console line it wrote.
Outcome(op, result, log) == [op |-> op, result |-> result, log |-> log]

\* ---------------------------------------------------------------- helpers
\* The async arrow function created by joinChat of session s.
Callback(s, n) == [kind |-> "fn", owner |-> s, n |-> n]

\* What calling an async function returns: a Promise, a fresh object.
PromiseOf(fn) == [kind |-> "promise", owner |-> fn.owner, n |-> fn.n]

\* React's state reducer for useState: a function is an updater.
basicStateReducer(state, action) ==
    IF action.kind = "fn" THEN PromiseOf(action) ELSE action

Truthy(cb) == cb.kind # "null"

\* uuidv4(): an id that no Message in any log carries.
Ids(msgs) == UNION {{msgs[s][i].id : i \in 1..Len(msgs[s])} : s \in Sessions}
uuidv4(msgs) == CHOOSE n \in 1..(MaxMessages + 1) : n \notin Ids(msgs)

RECURSIVE Held(_, _)
Held(msgs, S) ==
    IF S = {} THEN 0
    ELSE LET s == CHOOSE x \in S : TRUE IN Len(msgs[s]) + Held(msgs, S \ {s})

NewMessage(id, content, type, sender) ==
    [id |-> id, content |-> content, type |-> type, sender |-> sender,
     encrypted |-> TRUE]

\* rooms.get(code)
RoomsGet(rms, code) == IF code \in Codes THEN rms[code] ELSE NoRoom

\* The listeners left in the Room after room.listeners.delete(cb).
ListenersDelete(listeners, cb) == listeners \ {cb}

\* The cleanup block shared by the useEffect cleanup and leaveChat:
\* the heap and the registry after it ran with (code, cb).
CleanupHeap(rms, hp, code, cb) ==
    IF code # NullCode /\ Truthy(cb) /\ RoomsGet(rms, code) # NoRoom
    THEN [hp EXCEPT ![RoomsGet(rms, code)].listeners = ListenersDelete(@, cb)]
    ELSE hp

CleanupRooms(rms, hp, code, cb) ==
    IF code # NullCode /\ Truthy(cb) /\ RoomsGet(rms, code) # NoRoom
       /\ Cardinality(CleanupHeap(rms, hp, code, cb)[RoomsGet(rms, code)].listeners) = 0
    THEN [rms EXCEPT ![code] = NoRoom]
    ELSE rms

\* ---------------------------------------------------------------- Init
Init ==
    /\ rooms = [c \in Codes |-> NoRoom]
    /\ heap = <<>>
    /\ messages = [s \in Sessions |-> <<>>]
    /\ isPaired = [s \in Sessions |-> FALSE]
    /\ pairingCode = [s \in Sessions |-> NullCode]
    /\ messageCallback = [s \in Sessions |-> NullCb]
    /\ mounted = [s \in Sessions |-> TRUE]
    /\ joinPending = [s \in Sessions |-> NoJoin]
    /\ nextFn = 0
    /\ last = NoCall

\* Sessions differ only in their userId (uuidv4()), and codes only in their
\* spelling: a session, or a code, that nothing refers to yet is interchangeable
\* with any other such one, so the model names them in the order of first use.
SessionRank == [s \in Sessions |-> CASE s = "A" -> 1 [] s = "B" -> 2 [] OTHER -> 3]
CodeRank == [c \in Codes |-> IF c = "c1" THEN 1 ELSE 2]

Pristine(s) ==
    /\ mounted[s] /\ ~isPaired[s] /\ pairingCode[s] = NullCode
    /\ messageCallback[s] = NullCb /\ joinPending[s] = NoJoin /\ messages[s] = <<>>
    /\ \A r \in 1..Len(heap) :
          heap[r].creator # s /\ \A l \in heap[r].listeners : l.owner # s

PristineCode(c) ==
    /\ rooms[c] = NoRoom /\ last.result # c
    /\ \A s \in Sessions : pairingCode[s] # c /\ joinPending[s].code # c

InOrder(s) ==
    Pristine(s) => \A p \in Sessions : SessionRank[p] < SessionRank[s] => ~Pristine(p)

CodeInOrder(c) ==
    PristineCode(c) => \A d \in Codes : CodeRank[d] < CodeRank[c] => ~PristineCode(d)

\* The session can be called: it is mounted and not suspended in a joinChat.
Idle(s) == mounted[s] /\ joinPending[s] = NoJoin /\ InOrder(s)

\* ---------------------------------------------------------------- generateCode
\* crypto.generatePairingCode(): a code unique among the currently open rooms.
generatePairingCode == {c \in Codes : rooms[c] = NoRoom}

\* generateCode that also starts from an empty log (setMessages([]) added).
GenerateCodeClearsLog(s, code) ==
    /\ Idle(s)
    /\ code \in generatePairingCode /\ CodeInOrder(code)
    /\ Len(heap) < MaxRooms
    /\ LET hp1 == Append(heap, [creator |-> s, listeners |-> {}])
           rms1 == [rooms EXCEPT ![code] = Len(hp1)]
           changed == pairingCode[s] # code
           oldCode == IF changed THEN pairingCode[s] ELSE NullCode
       IN /\ heap' = CleanupHeap(rms1, hp1, oldCode, messageCallback[s])
          /\ rooms' = CleanupRooms(rms1, hp1, oldCode, messageCallback[s])
    /\ pairingCode' = [pairingCode EXCEPT ![s] = code]
    /\ isPaired' = [isPaired EXCEPT ![s] = TRUE]
    /\ messages' = [messages EXCEPT ![s] = <<>>]
    /\ last' = Outcome("generateCode", code, "none")
    /\ UNCHANGED <<messageCallback, mounted, joinPending, nextFn>>

GenerateCode(s, code) ==
    /\ Idle(s)
    /\ code \in generatePairingCode /\ CodeInOrder(code)
    /\ Len(heap) < MaxRooms
    /\ LET hp1 == Append(heap, [creator |-> s, listeners |-> {}])
           rms1 == [rooms EXCEPT ![code] = Len(hp1)]
           changed == pairingCode[s] # code
           oldCode == IF changed THEN pairingCode[s] ELSE NullCode
       IN /\ heap' = CleanupHeap(rms1, hp1, oldCode, messageCallback[s])
          /\ rooms' = CleanupRooms(rms1, hp1, oldCode, messageCallback[s])
    /\ pairingCode' = [pairingCode EXCEPT ![s] = code]
    /\ isPaired' = [isPaired EXCEPT ![s] = TRUE]
    /\ last' = Outcome("generateCode", code, "none")
    /\ UNCHANGED <<messages, messageCallback, mounted, joinPending, nextFn>>

\* generateKeyPair or generatePairingCode rejected: logged and rethrown.
GenerateCodeFail(s) ==
    /\ Idle(s)
    /\ last' = Outcome("generateCode", "CryptoError", "Failed to generate code")
    /\ UNCHANGED <<rooms, heap, messages, isPaired, pairingCode, messageCallback,
                   mounted, joinPending, nextFn>>

\* ---------------------------------------------------------------- joinChat
\* The self-pairing check left out.
IsCreatorNever(room, s) == FALSE

\* The self-pairing check with its comparison inverted (room.creator !== userId).
IsCreatorInverted(room, s) == heap[room].creator # s

\* room.creator === userId
IsCreator(room, s) == heap[room].creator = s

\* joinChat with setPairingCode(code) moved in front of the lookup.
JoinChatPairsFirst(s, code) ==
    /\ Idle(s) /\ CodeInOrder(code)
    /\ pairingCode' = [pairingCode EXCEPT ![s] = code]
    /\ LET room == RoomsGet(rooms, code) IN
         IF room = NoRoom
         THEN /\ last' = Outcome("joinChat", "false", "Room not found")
              /\ UNCHANGED joinPending
         ELSE IF heap[room].creator = s
         THEN /\ last' = Outcome("joinChat", "false", "Cannot join your own room")
              /\ UNCHANGED joinPending
         ELSE /\ Cardinality({p \in Sessions : joinPending[p] # NoJoin}) < MaxPending
              /\ UNCHANGED last
              /\ joinPending' = [joinPending EXCEPT ![s] = [code |-> code, room |-> room]]
    /\ UNCHANGED <<rooms, heap, messages, isPaired, messageCallback, mounted, nextFn>>

\* joinChat with the self-pairing check written as an assignment
\* (room.creator = userId): the Room changes hands and the call is turned down.
JoinChatAssignsCreator(s, code) ==
    /\ Idle(s) /\ CodeInOrder(code)
    /\ LET room == RoomsGet(rooms, code) IN
         IF room = NoRoom
         THEN /\ last' = Outcome("joinChat", "false", "Room not found")
              /\ UNCHANGED heap
         ELSE /\ last' = Outcome("joinChat", "false", "Cannot join your own room")
              /\ heap' = [heap EXCEPT ![room].creator = s]
    /\ UNCHANGED <<rooms, messages, isPaired, pairingCode, messageCallback,
                   mounted, joinPending, nextFn>>

\* joinChat up to its await: the lookup, the two rejections, then suspension
\* holding the Room object that was found.
JoinChat(s, code) ==
    /\ Idle(s) /\ CodeInOrder(code)
    /\ LET room == RoomsGet(rooms, code) IN
         IF room = NoRoom
         THEN /\ last' = Outcome("joinChat", "false", "Room not found")
              /\ UNCHANGED joinPending
         ELSE IF IsCreator(room, s)
         THEN /\ last' = Outcome("joinChat", "false", "Cannot join your own room")
              /\ UNCHANGED joinPending
         ELSE /\ Cardinality({p \in Sessions : joinPending[p] # NoJoin}) < MaxPending
              /\ UNCHANGED last
              /\ joinPending' = [joinPending EXCEPT ![s] = [code |-> code, room |-> room]]
    /\ UNCHANGED <<rooms, heap, messages, isPaired, pairingCode, messageCallback,
                   mounted, nextFn>>

\* The raw message a callback sees when React calls it as a state updater:
\* the previous state. null has no .content (TypeError); a Promise has
\* neither .content nor .type.
NullMsg == [content |-> "null", type |-> "null"]
Raw(content, type) == [content |-> content, type |-> type]
AsMessage(state) == IF Truthy(state) THEN Raw(Undefined, Undefined) ELSE NullMsg

\* The body of the callback: the log after it ran on a raw message. A failure to
\* read the message is caught and logged.
Deliver(log, id, message) ==
    IF message = NullMsg
    THEN log
    ELSE Append(log, NewMessage(id, message.content, message.type, "peer"))

\* joinChat after crypto.generateKeyPair() resolved.
JoinChatResume(s) ==
    /\ joinPending[s] # NoJoin
    /\ nextFn < MaxFns
    /\ Truthy(messageCallback[s]) => Held(messages, Sessions) < MaxMessages
    /\ LET code == joinPending[s].code
           room == joinPending[s].room
           callback == Callback(s, nextFn + 1)
           hp1 == [heap EXCEPT ![room].listeners = @ \cup {callback}]
       IN /\ nextFn' = nextFn + 1
          /\ joinPending' = [joinPending EXCEPT ![s] = NoJoin]
          /\ last' = Outcome("joinChat", "true", "none")
          /\ pairingCode' = [pairingCode EXCEPT ![s] = code]
          \* setMessageCallback(callback): React calls callback(previous state)
          /\ messageCallback' = [messageCallback EXCEPT ![s] =
                                    basicStateReducer(@, callback)]
          /\ messages' = [messages EXCEPT ![s] =
                            Deliver(@, uuidv4(messages), AsMessage(messageCallback[s]))]
          /\ isPaired' = [isPaired EXCEPT ![s] = TRUE]
          \* the effect cleanup of the previous render
          /\ heap' = CleanupHeap(rooms, hp1, pairingCode[s], messageCallback[s])
          /\ rooms' = CleanupRooms(rooms, hp1, pairingCode[s], messageCallback[s])
    /\ UNCHANGED mounted

\* The same with setPairingCode(code) placed in front of the await.
JoinChatCryptoFailAfterCode(s) ==
    /\ joinPending[s] # NoJoin
    /\ joinPending' = [joinPending EXCEPT ![s] = NoJoin]
    /\ pairingCode' = [pairingCode EXCEPT ![s] = joinPending[s].code]
    /\ last' = Outcome("joinChat", "false", "Failed to join chat")
    /\ UNCHANGED <<rooms, heap, messages, isPaired, messageCallback, mounted, nextFn>>

\* crypto.generateKeyPair() rejected inside joinChat: caught, logged, false.
JoinChatCryptoFail(s) ==
    /\ joinPending[s] # NoJoin
    /\ joinPending' = [joinPending EXCEPT ![s] = NoJoin]
    /\ last' = Outcome("joinChat", "false", "Failed to join chat")
    /\ UNCHANGED <<rooms, heap, messages, isPaired, pairingCode, messageCallback,
                   mounted, nextFn>>

\* ---------------------------------------------------------------- sendMessage
\* The guard of sendMessage left out.
NotPairedNever(s) == FALSE

\* The guard of sendMessage.
NotPaired(s) == ~isPaired[s] \/ pairingCode[s] = NullCode

\* The listeners the forEach of sendMessage calls.
Recipients(s) ==
    LET room == RoomsGet(rooms, pairingCode[s]) IN
    IF room = NoRoom THEN {}
    ELSE {l \in heap[room].listeners : l # messageCallback[s]}

\* Set iteration is in insertion order, which is creation order here.
RECURSIVE FanOut(_, _, _)
FanOut(msgs, recips, raw) ==
    IF recips = {} THEN msgs
    ELSE LET l == CHOOSE x \in recips : \A y \in recips : x.n <= y.n
         IN FanOut([msgs EXCEPT ![l.owner] =
                        IF mounted[l.owner] THEN Deliver(@, uuidv4(msgs), raw) ELSE @],
                   recips \ {l}, raw)

\* The local echo made only when the Room is found.
EchoIfRoom(s, message) ==
    IF RoomsGet(rooms, pairingCode[s]) = NoRoom THEN messages
    ELSE [messages EXCEPT ![s] = Append(@, message)]

\* setMessages(prev => [...prev, message]) in sendMessage: the local echo.
Echo(s, message) == [messages EXCEPT ![s] = Append(@, message)]

SendMessage(s, content, type) ==
    /\ Idle(s)
    /\ IF NotPaired(s)
       THEN /\ last' = Outcome("sendMessage", "NotPairedError", "none")
            /\ UNCHANGED messages
       ELSE /\ Held(messages, Sessions) + 1
                 + Cardinality({l \in Recipients(s) : mounted[l.owner]}) <= MaxMessages
            /\ LET message == NewMessage(uuidv4(messages), content, type, "self")
                   echoed == Echo(s, message)
               IN messages' = FanOut(echoed, Recipients(s), Raw(content, type))
            /\ last' = Outcome("sendMessage", "void", "none")
    /\ UNCHANGED <<rooms, heap, isPaired, pairingCode, messageCallback, mounted,
                   joinPending, nextFn>>

\* ---------------------------------------------------------------- leaveChat
\* leaveChat without its setPairingCode(null).
LeaveChatKeepsCode(s) ==
    /\ Idle(s)
    /\ LET hp1 == CleanupHeap(rooms, heap, pairingCode[s], messageCallback[s])
           rms1 == CleanupRooms(rooms, heap, pairingCode[s], messageCallback[s])
       IN /\ heap' = CleanupHeap(rms1, hp1, pairingCode[s], messageCallback[s])
          /\ rooms' = CleanupRooms(rms1, hp1, pairingCode[s], messageCallback[s])
    /\ messages' = [messages EXCEPT ![s] = <<>>]
    /\ isPaired' = [isPaired EXCEPT ![s] = FALSE]
    /\ messageCallback' = [messageCallback EXCEPT ![s] = NullCb]
    /\ last' = Outcome("leaveChat", "void", "none")
    /\ UNCHANGED <<pairingCode, mounted, joinPending, nextFn>>

LeaveChat(s) ==
    /\ Idle(s)
    /\ LET hp1 == CleanupHeap(rooms, heap, pairingCode[s], messageCallback[s])
           rms1 == CleanupRooms(rooms, heap, pairingCode[s], messageCallback[s])
       IN \* the state is reset, then the effect cleanup of the previous render runs
          /\ heap' = CleanupHeap(rms1, hp1, pairingCode[s], messageCallback[s])
          /\ rooms' = CleanupRooms(rms1, hp1, pairingCode[s], messageCallback[s])
    /\ messages' = [messages EXCEPT ![s] = <<>>]
    /\ isPaired' = [isPaired EXCEPT ![s] = FALSE]
    /\ pairingCode' = [pairingCode EXCEPT ![s] = NullCode]
    /\ messageCallback' = [messageCallback EXCEPT ![s] = NullCb]
    /\ last' = Outcome("leaveChat", "void", "none")
    /\ UNCHANGED <<mounted, joinPending, nextFn>>

\* ---------------------------------------------------------------- unmount
\* The provider is unmounted: the effect cleanup runs with the current state, and
\* the component's state is discarded with it.
Unmount(s) ==
    /\ Idle(s)
    /\ mounted' = [mounted EXCEPT ![s] = FALSE]
    /\ heap' = CleanupHeap(rooms, heap, pairingCode[s], messageCallback[s])
    /\ rooms' = CleanupRooms(rooms, heap, pairingCode[s], messageCallback[s])
    /\ messages' = [messages EXCEPT ![s] = <<>>]
    /\ isPaired' = [isPaired EXCEPT ![s] = FALSE]
    /\ pairingCode' = [pairingCode EXCEPT ![s] = NullCode]
    /\ messageCallback' = [messageCallback EXCEPT ![s] = NullCb]
    /\ UNCHANGED <<joinPending, nextFn, last>>

Next ==
    \/ \E s \in Sessions, c \in Codes : GenerateCode(s, c)
    \/ \E s \in Sessions : GenerateCodeFail(s)
    \/ \E s \in Sessions, c \in Codes : JoinChat(s, c)
    \/ \E s \in Sessions : JoinChatResume(s)
    \/ \E s \in Sessions : JoinChatCryptoFail(s)
    \/ \E s \in Sessions, m \in Inputs : SendMessage(s, m[1], m[2])
    \/ \E s \in Sessions : LeaveChat(s)
    \/ \E s \in Sessions : Unmount(s)

Spec == Init /\ [][Next]_vars

\* ================================================================ claims
\* The session is paired: what sendMessage requires.
Paired(s) == isPaired[s] /\ pairingCode[s] # NullCode

\* Session a generated code c: it is paired with c and the Room registered under c
\* is the one it created.
HostOf(a, c) ==
    /\ Paired(a) /\ pairingCode[a] = c
    /\ RoomsGet(rooms, c) # NoRoom /\ heap[RoomsGet(rooms, c)].creator = a

\* Session b joined code c and has not left: it is paired with c and the callback
\* of that joinChat is a subscriber of the Room registered under c.
JoinerOf(b, c) ==
    /\ Paired(b) /\ pairingCode[b] = c /\ joinPending[b] = NoJoin
    /\ RoomsGet(rooms, c) # NoRoom
    /\ Callback(b, messageCallback[b].n) \in heap[RoomsGet(rooms, c)].listeners

\* log2 is log1 with exactly one Message added at the end, from `sender`, carrying
\* content and type.
OneAppended(log1, log2, sender, content, type) ==
    /\ Len(log2) = Len(log1) + 1
    /\ SubSeq(log2, 1, Len(log1)) = log1
    /\ log2[Len(log2)].sender = sender
    /\ log2[Len(log2)].content = content
    /\ log2[Len(log2)].type = type

\* C1: once a generated code c and b joined it (neither has left), every
\* sendMessage(x, t) of a appends exactly one Message to b's log, with
\* sender = peer, content = x and type = t.
C1_HostToJoinerDelivery ==
    [][\A a \in Sessions, b \in Sessions, c \in Codes, m \in Inputs :
         (a # b /\ HostOf(a, c) /\ JoinerOf(b, c) /\ SendMessage(a, m[1], m[2]))
         => OneAppended(messages[b], messages'[b], "peer", m[1], m[2])]_vars

\* C2: once a generated code c and b joined it (neither has left), every
\* sendMessage(x, t) of b appends exactly one Message to a's log, with
\* sender = peer, content = x and type = t.
C2_JoinerToHostDelivery ==
    [][\A a \in Sessions, b \in Sessions, c \in Codes, m \in Inputs :
         (a # b /\ HostOf(a, c) /\ JoinerOf(b, c) /\ SendMessage(b, m[1], m[2]))
         => OneAppended(messages[a], messages'[a], "peer", m[1], m[2])]_vars

\* No Room object has a callback of its own creator among its listeners.
NoSelfSubscriber ==
    \A r \in 1..Len(heap) : \A l \in heap[r].listeners : l.owner # heap[r].creator

\* C3: no Room's subscriber set ever holds a callback of the Room's creator, and
\* joinChat(c) by the session that created the Room registered under c returns
\* false and adds no subscriber.
C3_NoSelfPairing ==
    /\ []NoSelfSubscriber
    /\ [][\A s \in Sessions, c \in Codes :
            (RoomsGet(rooms, c) # NoRoom /\ heap[RoomsGet(rooms, c)].creator = s
             /\ JoinChat(s, c))
            => (last'.result = "false" /\ heap' = heap /\ rooms' = rooms
                /\ joinPending' = joinPending)]_vars

\* A session that holds the code it generated just had its joinChat turned down as
\* self-pairing, and its Room still has no subscriber.
C3_Witness ==
    /\ last = Outcome("joinChat", "false", "Cannot join your own room")
    /\ \E s \in Sessions :
         /\ HostOf(s, pairingCode[s])
         /\ heap[RoomsGet(rooms, pairingCode[s])].listeners = {}

\* C4: joinChat(c) with no Room registered under c returns false, creates no Room
\* and leaves the caller's pairing state, callback and message log unchanged.
C4_JoinUnknownCode ==
    [][\A s \in Sessions, c \in Codes :
         (RoomsGet(rooms, c) = NoRoom /\ JoinChat(s, c))
         => (last'.result = "false"
             /\ UNCHANGED <<rooms, heap, isPaired, pairingCode, messageCallback,
                            messages, joinPending>>)]_vars

\* A joinChat was just turned down because no Room was found, while some Room
\* exists under another code.
C4_Witness ==
    /\ last = Outcome("joinChat", "false", "Room not found")
    /\ \E c \in Codes : rooms[c] # NoRoom
    /\ \E c \in Codes : rooms[c] = NoRoom

\* C5: sendMessage by a session that is not paired throws NotPairedError, leaves
\* every log unchanged (nothing echoed, nothing delivered) and does not change the
\* registry.
C5_SendWhileUnpaired ==
    [][\A s \in Sessions, m \in Inputs :
         ((~isPaired[s] \/ pairingCode[s] = NullCode) /\ SendMessage(s, m[1], m[2]))
         => (last'.result = "NotPairedError"
             /\ UNCHANGED <<messages, rooms, heap, isPaired, pairingCode,
                            messageCallback>>)]_vars

\* A sendMessage just threw NotPairedError while a Room with a subscriber exists.
C5_Witness ==
    /\ last = Outcome("sendMessage", "NotPairedError", "none")
    /\ \E s \in Sessions : mounted[s] /\ ~isPaired[s] /\ joinPending[s] = NoJoin
    /\ \E c \in Codes : rooms[c] # NoRoom /\ heap[rooms[c]].listeners # {}

\* Session s is the only subscriber of the Room registered under its code.
SoleSubscriber(s) ==
    /\ Paired(s) /\ RoomsGet(rooms, pairingCode[s]) # NoRoom
    /\ heap[RoomsGet(rooms, pairingCode[s])].listeners =
          {Callback(s, messageCallback[s].n)}

\* C6: when the only subscriber of a Room calls leaveChat, the Room is deleted from
\* the registry (so that a later joinChat with its code finds no Room and returns
\* false).
C6_SoleSubscriberLeaves ==
    [][\A s \in Sessions :
         (SoleSubscriber(s) /\ LeaveChat(s))
         => RoomsGet(rooms', pairingCode[s]) = NoRoom]_vars

IsSelf(e) == e.sender = "self"
IsPeer(e) == e.sender = "peer"

\* C7: every sendMessage(x, t) by a paired session returns without error and adds
\* exactly one Message with sender = self, content x and type t to the sender's
\* log, right after the entries the log had; when no Room is registered under the
\* session's code, that is the only change to any log.
C7_LocalEcho ==
    [][\A s \in Sessions, m \in Inputs :
         (isPaired[s] /\ pairingCode[s] # NullCode /\ SendMessage(s, m[1], m[2]))
         => /\ last'.result = "void"
            /\ OneAppended(SelectSeq(messages[s], IsSelf),
                           SelectSeq(messages'[s], IsSelf), "self", m[1], m[2])
            /\ OneAppended(messages[s], SubSeq(messages'[s], 1, Len(messages[s]) + 1),
                           "self", m[1], m[2])
            /\ RoomsGet(rooms, pairingCode[s]) = NoRoom
               => /\ Len(messages'[s]) = Len(messages[s]) + 1
                  /\ \A p \in Sessions \ {s} : messages'[p] = messages[p]]_vars

\* A paired session whose Room is gone from the registry has just sent a message:
\* its log holds the echo and no other log holds anything.
C7_Witness ==
    /\ last = Outcome("sendMessage", "void", "none")
    /\ \E s \in Sessions :
         /\ Paired(s) /\ RoomsGet(rooms, pairingCode[s]) = NoRoom
         /\ Len(messages[s]) = 1 /\ messages[s][1].sender = "self"
         /\ \A p \in Sessions \ {s} : messages[p] = <<>>

\* C8: one sendMessage by s calls the callback of every other subscriber of s's
\* Room exactly once and never s's own callback: s's log gains no sender = peer
\* entry, and every other mounted session's log gains one entry per callback it has
\* in the Room.
C8_FanOutSelfExclusion ==
    [][\A s \in Sessions, m \in Inputs :
         (Paired(s) /\ SendMessage(s, m[1], m[2]))
         => /\ SelectSeq(messages'[s], IsPeer) = SelectSeq(messages[s], IsPeer)
            /\ \A p \in Sessions \ {s} :
                 mounted[p] =>
                   Len(messages'[p]) = Len(messages[p])
                     + Cardinality({l \in Recipients(s) : l.owner = p})]_vars

DistinctIds(log) ==
    \A i \in 1..Len(log), j \in 1..Len(log) : i # j => log[i].id # log[j].id

\* C9: while a session stays paired its log only grows at the end, each
\* sendMessage of the session adds exactly one entry (so N sends with nothing
\* inbound leave exactly those N messages, in order), and the ids in a log are
\* pairwise distinct.
C9_AppendOnlyLog ==
    /\ [](\A s \in Sessions : DistinctIds(messages[s]))
    /\ [][\A s \in Sessions :
            (isPaired[s] /\ isPaired'[s])
            => /\ Len(messages'[s]) >= Len(messages[s])
               /\ SubSeq(messages'[s], 1, Len(messages[s])) = messages[s]]_vars
    /\ [][\A s \in Sessions, m \in Inputs :
            (Paired(s) /\ SendMessage(s, m[1], m[2]))
            => OneAppended(messages[s], messages'[s], "self", m[1], m[2])]_vars

\* The states the claim calls Idle, and those of a session that was never paired
\* or is already torn down.
TornDown(s) == ~isPaired[s] /\ pairingCode[s] = NullCode /\ messageCallback[s] = NullCb
IdleSession(s) == TornDown(s) /\ messages[s] = <<>>

\* C10: after leaveChat the session is Idle (not paired, no code, no callback,
\* empty log), and a leaveChat on a session that was never paired or is already
\* torn down changes neither the registry nor the session's state.
C10_LeaveIdempotent ==
    [][\A s \in Sessions :
         LeaveChat(s)
         => /\ IdleSession(s)'
            /\ TornDown(s)
               => UNCHANGED <<rooms, heap, messages, isPaired, pairingCode,
                              messageCallback>>]_vars

C12_GenerateCode ==
    /\ [][\A s \in Sessions :
            GenerateCodeFail(s)
            => /\ last'.result = "CryptoError"
               /\ UNCHANGED <<rooms, heap, isPaired, pairingCode>>]_vars
    /\ [][\A s \in Sessions, c \in Codes :
            GenerateCode(s, c)
            => /\ last'.result = c
               /\ rooms'[c] # NoRoom /\ rooms'[c] \notin 1..Len(heap)
               /\ heap'[rooms'[c]] = [creator |-> s, listeners |-> {}]
               /\ messages' = messages]_vars

\* A session whose log is not empty has just generated a code: the Room under that
\* code is its own and has no subscriber.
C12_Witness ==
    /\ last.op = "generateCode" /\ last.result \in Codes
    /\ \E s \in Sessions :
         /\ HostOf(s, last.result) /\ messages[s] # <<>>
         /\ heap[rooms[last.result]].listeners = {}

\* C13: joinChat(c) by a session that finds under c a Room of another session is
\* not turned down but goes on to the Crypto Provider, and when that succeeds
\* joinChat returns true and the session is paired with c.
C13_JoinAdmitted ==
    /\ [][\A s \in Sessions, c \in Codes :
            (RoomsGet(rooms, c) # NoRoom /\ heap[RoomsGet(rooms, c)].creator # s
             /\ JoinChat(s, c))
            => (joinPending'[s] = [code |-> c, room |-> rooms[c]] /\ last' = last)]_vars
    /\ [][\A s \in Sessions :
            JoinChatResume(s)
            => /\ last' = Outcome("joinChat", "true", "none")
               /\ isPaired'[s] /\ pairingCode'[s] = joinPending[s].code]_vars

\* A joinChat has just returned true: the caller is a subscriber of another
\* session's Room and paired with its code.
C13_Witness ==
    /\ last = Outcome("joinChat", "true", "none")
    /\ \E s \in Sessions, c \in Codes :
         JoinerOf(s, c) /\ heap[rooms[c]].creator # s /\ messages[s] = <<>>

\* C14: the registry holds a Room for a code only while some mounted session is
\* paired with that code (or is joining it): once every session that generated or
\* joined the code has left or been torn down, the Room is gone.
C14_NoLeakedRooms ==
    \A c \in Codes :
       rooms[c] # NoRoom
       => \E s \in Sessions :
             mounted[s] /\ (pairingCode[s] = c \/ joinPending[s].code = c)

\* Session s has a callback in the subscriber set of a registered Room.
Subscribed(s) ==
    \E c \in Codes :
       rooms[c] # NoRoom /\ \E l \in heap[rooms[c]].listeners : l.owner = s

\* C15: leaveChat or teardown of s leaves no callback of s in any registered Room
\* and changes no other session's callbacks in any Room, pairing state or log; and
\* a sendMessage of another session appends nothing to the log of a session that
\* is torn down.
C15_NoStaleDelivery ==
    /\ [][\A s \in Sessions :
            (LeaveChat(s) \/ Unmount(s))
            => /\ ~Subscribed(s)'
               /\ \A r \in 1..Len(heap) :
                    {l \in heap'[r].listeners : l.owner # s}
                       = {l \in heap[r].listeners : l.owner # s}
               /\ \A p \in Sessions \ {s} :
                    /\ messages'[p] = messages[p] /\ isPaired'[p] = isPaired[p]
                    /\ pairingCode'[p] = pairingCode[p]
                    /\ messageCallback'[p] = messageCallback[p]]_vars
    /\ [][\A s \in Sessions, p \in Sessions, m \in Inputs :
            (p # s /\ TornDown(s) /\ SendMessage(p, m[1], m[2]))
            => messages'[s] = messages[s]]_vars

\* C16: a session's callbacks are in the subscriber set of at most one registered
\* Room, at most one of them, and only in the Room of the session's current
\* pairing code.
C16_OneSubscription ==
    \A s \in Sessions, c \in Codes :
       rooms[c] # NoRoom
       => LET own == {l \in heap[rooms[c]].listeners : l.owner = s}
          IN /\ Cardinality(own) <= 1
             /\ own # {} => pairingCode[s] = c

\* C17: a Room never has callbacks of more than one joiner, and joinChat(c) by a
\* session other than the one that already joined c is turned down.
C17_SingleJoinAdmission ==
    /\ [](\A c \in Codes :
            rooms[c] # NoRoom
            => Cardinality({l.owner : l \in heap[rooms[c]].listeners}) <= 1)
    /\ [][\A s \in Sessions, c \in Codes :
            (/\ RoomsGet(rooms, c) # NoRoom
             /\ \E l \in heap[RoomsGet(rooms, c)].listeners : l.owner # s
             /\ JoinChat(s, c))
            => (last'.result = "false" /\ joinPending' = joinPending)]_vars

\* C18: the creator of a Room object never changes, and as long as a code stays
\* registered the Room under it keeps its creator.
C18_CreatorImmutable ==
    /\ [][/\ Len(heap') >= Len(heap)
          /\ \A r \in 1..Len(heap) : heap'[r].creator = heap[r].creator]_vars
    /\ [][\A c \in Codes :
            (rooms[c] # NoRoom /\ rooms'[c] # NoRoom)
            => heap'[rooms'[c]].creator = heap[rooms[c]].creator]_vars

\* A Room that has a subscriber is still registered with its creator after the
\* creator left it and generated another code.
C18_Witness ==
    \E c \in Codes, d \in Codes :
       /\ c # d /\ rooms[c] # NoRoom /\ rooms[d] # NoRoom
       /\ heap[rooms[c]].creator = heap[rooms[d]].creator
       /\ heap[rooms[c]].listeners # {}
       /\ pairingCode[heap[rooms[c]].creator] = d

\* C19: isPaired holds exactly when pairingCode is present; a session becomes
\* paired only by a generateCode or joinChat of its own that succeeds, and stops
\* being paired only by its leaveChat or teardown; a generateCode or joinChat that
\* fails or is turned down changes neither pairing state, callback, log nor
\* registry.
C19_StateMachine ==
    /\ [](\A s \in Sessions : isPaired[s] <=> pairingCode[s] # NullCode)
    /\ [][\A s \in Sessions :
            (~isPaired[s] /\ isPaired'[s])
            => /\ (\E c \in Codes : GenerateCode(s, c)) \/ JoinChatResume(s)
               /\ last'.op \in {"generateCode", "joinChat"}
               /\ last'.result \notin {"false", "CryptoError"}]_vars
    /\ [][\A s \in Sessions :
            (isPaired[s] /\ ~isPaired'[s]) => (LeaveChat(s) \/ Unmount(s))]_vars
    /\ [][\A s \in Sessions :
            (\/ GenerateCodeFail(s)
             \/ JoinChatCryptoFail(s)
             \/ \E c \in Codes : JoinChat(s, c) /\ last'.result = "false")
            => UNCHANGED <<isPaired, pairingCode, messageCallback, messages,
                           rooms, heap>>]_vars

\* A session that generated a code has just left: it is Idle again while the Room
\* it created exists.
C19_Witness ==
    /\ last = Outcome("leaveChat", "void", "none")
    /\ \E s \in Sessions :
         /\ mounted[s] /\ IdleSession(s)
         /\ \E c \in Codes : rooms[c] # NoRoom /\ heap[rooms[c]].creator = s

\* C20: whatever other sessions did while joinChat(c) of s was suspended, when it
\* returns true the registry maps c to a Room whose subscriber set holds the
\* callback of s; and no paired session has its callback only in a Room object
\* that is no longer registered.
C20_JoinAcrossSuspension ==
    /\ [][\A s \in Sessions :
            JoinChatResume(s)
            => LET c == joinPending[s].code
               IN /\ rooms'[c] # NoRoom
                  /\ Callback(s, nextFn') \in heap'[rooms'[c]].listeners]_vars
    /\ [](\A s \in Sessions, r \in 1..Len(heap) :
            (Paired(s) /\ Callback(s, messageCallback[s].n) \in heap[r].listeners)
            => \E c \in Codes : rooms[c] = r)
====
